---------------------------- MODULE Spec2Model ----------------------------
(***************************************************************************)
(* A model of linkedin_bookmarker.py: the proxy pool (ProxyManager), the   *)
(* session store (CookieManager), the retry loop of make_request with its  *)
(* inline response classification, and the batch loop of main with its     *)
(* consecutive-failure circuit breaker.                                     *)
(*                                                                          *)
(* The program is sequential: one control location (pc) walks through      *)
(* main -> fetch_profile_data -> make_request -> get_proxy / get_cookies.   *)
(* Everything the network, the browser driver and the clock decide is an   *)
(* input drawn with \E from a small set.                                    *)
(***************************************************************************)
EXTENDS Integers, Sequences, FiniteSets, TLC

(***************************************************************************)
(* Program constants                                                        *)
(***************************************************************************)
MAX_RETRIES == 3

MAX_CONSECUTIVE_FAILURES == 5

\* get_cookies: "time.time() - self.last_refresh > 3600"
SESSION_TTL == 3600

\* make_request: "response.status_code == 999"
SOFT_BLOCK_STATUS == 999

\* make_request: "response.status_code != 200"
HTTP_OK == 200

PROXY_LIST == <<"123.123.123.123:8000", "111.222.111.222:8080">>

SECURITY_MARKER == "security check"

CAPTCHA_MARKER == "captcha"

None == "None"

(***************************************************************************)
(* Bounds of the model                                                      *)
(***************************************************************************)
\* number of URLs of a batch under the full environment (Spec)
NumUrls == 2

\* number of URLs of a batch under the lean environment (SpecBatch)
BatchUrls == 8

\* longest response body, in tokens, the classifier is tried on
MaxBodyLen == 2

\* longest text of a page element, in tokens, the extraction is tried on
MaxTextLen == 3

\* longest query string, in parameters, clean_url is tried on
MaxParams == 3

(***************************************************************************)
(* State                                                                    *)
(***************************************************************************)
VARIABLES
    \* inputs fixed at start-up
    valid_urls,            \* main: the validated URL list
    skip_errors,           \* main: args.skip_errors
    creds,                 \* LINKEDIN_EMAIL and LINKEDIN_PASSWORD are both set
    \* ProxyManager
    blacklisted,
    current_proxy,
    \* CookieManager
    cookies,
    last_refresh,
    \* environment
    now,                   \* the last value time.time() returned
    drivers_open,          \* browser driver sessions started and not quit
    session_ok,            \* the refresh_cookies call that stored the session returned
    \* make_request (one call)
    attempt,               \* loop variable of "for attempt in range(MAX_RETRIES)"
    gets,                  \* requests.get calls issued by this call
    logins,                \* refresh_cookies executions that reached the browser login
    drivers,               \* browser driver sessions started by this call
    refreshes,             \* refresh_cookies calls made by this call
    solver_calls,          \* captcha_solver.solve_recaptcha calls made by this call
    outcome,               \* what the last step of this call ended in
    error,                 \* the exception make_request raised, "none" if none
    jar_sent,              \* the jar get_cookies handed to this attempt
    refreshed,             \* the last get_cookies call ran refresh_cookies
    response,              \* the response make_request returned, NoResponse before
    backoff,               \* seconds the last handler of this call slept, 0 if it slept none
    retry_after,           \* the retry-after value the last raised exception carries
    error_cause,           \* str(e) of the exception the raised error embeds, "none" if none
    \* main
    pc,
    url_idx,               \* 1-based position of the for loop in valid_urls
    bookmarks,             \* URLs appended to bookmarks_by_folder, in order
    failed_urls,
    processed_count,
    consecutive_failures,
    results,               \* per-URL outcome history of the batch loop
    stopped,               \* why the batch loop ended
    saved,                 \* save_results has been called
    \* CaptchaSolver.solve_recaptcha (one call)
    api_key,               \* CAPTCHA_API_KEY is set
    submits,               \* requests.post calls to in.php
    polls,                 \* requests.get calls to res.php
    solved,                \* a poll answered with status 1
    token,                 \* what solve_recaptcha returned, None for None
    \* fetch_profile_data / extract_profile_data (one call)
    page,                  \* the parsed page (soup)
    profile_data,          \* first element of fetch_profile_data's result
    fetch_error,           \* second element of fetch_profile_data's result
    \* clean_url (one call)
    raw_url,               \* the argument
    cleaned_url            \* the result

cfgVars == <<valid_urls, skip_errors, creds>>
proxyVars == <<blacklisted, current_proxy>>
cookieVars == <<cookies, last_refresh>>
envVars == <<now, drivers_open, session_ok>>
reqVars == <<attempt, gets, logins, drivers, refreshes, solver_calls, outcome, error, jar_sent,
             refreshed, response, backoff, retry_after, error_cause>>
mainVars == <<url_idx, bookmarks, failed_urls, processed_count, consecutive_failures, results,
              stopped, saved>>
solverVars == <<api_key, submits, polls, solved, token>>
pageVars == <<page, profile_data, fetch_error>>
urlVars == <<raw_url, cleaned_url>>
sideVars == <<solverVars, pageVars, urlVars>>
vars == <<cfgVars, proxyVars, cookieVars, envVars, reqVars, mainVars, sideVars, pc>>

(***************************************************************************)
(* Generic helpers                                                          *)
(***************************************************************************)
Range(s) == {s[i] : i \in DOMAIN s}

Front(s) == SubSeq(s, 1, Len(s) - 1)

Last(s) == s[Len(s)]

RECURSIVE SeqsUpTo(_, _)
SeqsUpTo(S, n) ==
    IF n = 0 THEN {<<>>}
    ELSE LET shorter == SeqsUpTo(S, n - 1)
         IN shorter \cup {Append(s, x) : s \in shorter, x \in S}

(***************************************************************************)
(* ProxyManager                                                             *)
(***************************************************************************)
Proxies == Range(PROXY_LIST)

\* (mutant of Available: the blacklist is not consulted)
AvailableIgnoringBlacklist(bl) == Proxies

\* get_proxy: "available = [p for p in self.proxies if p not in self.blacklisted]"
Available(bl) == {p \in Proxies : p \notin bl}

\* (mutant of MarkBad: the blacklist keeps the last bad endpoint only)
MarkBadLastOnly(bl, proxy) == {proxy}

\* mark_bad: "self.blacklisted.add(proxy)"; make_request passes current_proxy,
\* which is None until the first successful get_proxy
MarkBad(bl, proxy) == bl \cup {proxy}

(***************************************************************************)
(* CookieManager                                                            *)
(***************************************************************************)
EmptyJar == [n \in {} |-> ""]

\* driver.get_cookies(): a list of {name, value} records
CookieLists ==
    { <<>>,
      <<[name |-> "li_at", value |-> "v1"]>>,
      <<[name |-> "li_at", value |-> "v1"], [name |-> "li_at", value |-> "v2"]>> }

\* "{c['name']: c['value'] for c in driver.get_cookies()}": later entries win
RECURSIVE DictComp(_)
DictComp(l) ==
    IF l = <<>> THEN EmptyJar
    ELSE LET d == DictComp(Front(l))
             c == Last(l)
         IN [n \in DOMAIN d \cup {c.name} |-> IF n = c.name THEN c.value ELSE d[n]]

\* the statements of refresh_cookies' try block, in order
LoginSteps == <<"start_driver", "open_login", "wait_username", "fill_password",
                "submit", "wait_home", "harvest">>

\* What the browser does during one login: fail_at = 0 when no statement raises,
\* else the index in LoginSteps of the statement that raises (a wait timing out
\* or any driver error); the cookie list the driver hands over; whether
\* driver.quit() itself raises.
LoginRuns ==
    [fail_at : 1..Len(LoginSteps), cookie_list : {<<>>}, quit_raises : {FALSE}]
    \cup [fail_at : {0}, cookie_list : CookieLists, quit_raises : BOOLEAN]

\* the lean environment: the login succeeds and yields one session cookie
LeanLoginRuns ==
    {[fail_at |-> 0, cookie_list |-> <<[name |-> "li_at", value |-> "v1"]>>,
      quit_raises |-> FALSE]}

\* get_cookies: "not self.cookies or time.time() - self.last_refresh > 3600"
NeedsRefresh(jar, created, t) == (DOMAIN jar = {}) \/ (t - created > SESSION_TTL)

\* (mutant of FinallyQuit: quit at the end of the try block, not in a finally)
QuitOnSuccessOnly(bound, raised) == IF bound /\ ~raised THEN 1 ELSE 0

\* refresh_cookies, finally block: "if 'driver' in locals(): driver.quit()"
\* bound is TRUE when webdriver.Chrome(...) returned; the result is the number of
\* quit calls.
FinallyQuit(bound, raised) == IF bound THEN 1 ELSE 0

\* refresh_cookies as a whole, run against one browser behaviour at clock value t.
\* "started" and "quits" count driver sessions created and quit.
RefreshCookies(jar, created, configured, run, t) ==
    IF ~configured
    THEN [raised |-> TRUE, cookies |-> jar, last_refresh |-> created,
          started |-> 0, quits |-> 0, login |-> 0]
    ELSE LET bound == run.fail_at # 1
             failed == run.fail_at # 0
         IN [raised |-> failed \/ (bound /\ run.quit_raises),
             cookies |-> IF failed THEN jar ELSE DictComp(run.cookie_list),
             last_refresh |-> IF failed THEN created ELSE t,
             started |-> IF bound THEN 1 ELSE 0,
             quits |-> FinallyQuit(bound, failed),
             login |-> 1]

(***************************************************************************)
(* CaptchaSolver                                                            *)
(***************************************************************************)
\* "for _ in range(30)"
MAX_POLLS == 30

\* what the post to in.php comes back with: status 1 and a job id, status 1
\* without the 'request' key, another status, or an exception of the post
SubmitResults == {"accepted", "accepted_no_id", "rejected", "raise"}

\* what one get of res.php comes back with: status 1 and a token, status 1
\* without the 'request' key, request 'CAPCHA_NOT_READY', anything else, or an
\* exception of the get
PollResults == {"ready", "ready_no_token", "CAPCHA_NOT_READY", "other", "raise"}

\* the tokens the service hands out
SolverTokens == {"03AGdBq2"}

\* (mutant of PollsLeft: the loop runs one iteration too many)
PollsLeftInclusive(n) == n <= MAX_POLLS

\* "for _ in range(30)": is there another iteration after n polls
PollsLeft(n) == n < MAX_POLLS

\* the variables that belong to other operations than solve_recaptcha
solverFrame == <<cfgVars, proxyVars, cookieVars, envVars, mainVars, pageVars, urlVars,
                 attempt, gets, logins, drivers, refreshes, solver_calls, error, jar_sent,
                 refreshed, response, backoff, retry_after, error_cause>>

\* lines 201-221: the api key check and the submission
SolverSubmit ==
    /\ pc = "sv_start"
    /\ IF ~api_key
       THEN /\ outcome' = "no api key"
            /\ pc' = "sv_done"
            /\ UNCHANGED <<submits, polls, solved, token>>
       ELSE /\ submits' = submits + 1
            /\ \E r \in SubmitResults :
                 CASE r = "accepted" ->
                        /\ outcome' = "CAPTCHA submitted"
                        /\ pc' = IF PollsLeft(polls) THEN "sv_poll" ELSE "sv_done"
                   [] r = "rejected" ->
                        /\ outcome' = "CAPTCHA submission failed"
                        /\ pc' = "sv_done"
                   [] OTHER ->
                        /\ outcome' = "CAPTCHA solving error"
                        /\ pc' = "sv_done"
            /\ UNCHANGED <<polls, solved, token>>
    /\ UNCHANGED <<api_key, solverFrame>>

\* lines 225-234: one iteration of the polling loop, and lines 236-239 when it
\* is the last one or the get raises
SolverPoll ==
    /\ pc = "sv_poll"
    /\ polls' = polls + 1
    /\ \E r \in PollResults :
         CASE r = "ready" ->
                /\ \E tok \in SolverTokens : token' = tok
                /\ solved' = TRUE
                /\ outcome' = "solved"
                /\ pc' = "sv_done"
           [] r = "ready_no_token" ->
                /\ token' = token
                /\ solved' = TRUE
                /\ outcome' = "CAPTCHA solving error"
                /\ pc' = "sv_done"
           [] r = "CAPCHA_NOT_READY" ->
                /\ token' = token
                /\ solved' = solved
                /\ outcome' = "CAPCHA_NOT_READY"
                /\ pc' = IF PollsLeft(polls + 1) THEN "sv_poll" ELSE "sv_done"
           [] r = "other" ->
                /\ token' = token
                /\ solved' = solved
                /\ outcome' = "CAPTCHA solving failed"
                /\ pc' = "sv_done"
           [] OTHER ->
                /\ token' = token
                /\ solved' = solved
                /\ outcome' = "CAPTCHA solving error"
                /\ pc' = "sv_done"
    /\ UNCHANGED <<api_key, submits, solverFrame>>

(***************************************************************************)
(* Response classification (make_request, inline)                           *)
(***************************************************************************)
Statuses == {200, 404, 429, 500, 999}

Tokens == {"Jane Doe", "Security Check", "security check", "CAPTCHA"}

\* (mutant of LowerToken: the text is searched as it came, without lower())
LowerTokenAsIs(tok) == tok

\* str.lower() on the tokens of a body
LowerToken(tok) ==
    CASE tok = "Jane Doe" -> "jane doe"
      [] tok = "Security Check" -> "security check"
      [] tok = "CAPTCHA" -> "captcha"
      [] OTHER -> tok

Lower(body) == [i \in DOMAIN body |-> LowerToken(body[i])]

\* "marker in text": a body is a sequence of tokens, a marker is one token
Contains(body, marker) == \E i \in DOMAIN body : body[i] = marker

\* make_request's checks of a received response, in the order of the code.
\* The result names what the code does: the exception class it raises, or
\* "Response" when the response is returned.
\* retry_after is what the raised exception carries besides its message: the
\* exceptions are built from a message alone and response.headers is never read.
Classify(status, headers, body) ==
    IF status = SOFT_BLOCK_STATUS
    THEN [kind |-> "RateLimitException", status |-> status, retry_after |-> None]
    ELSE IF Contains(Lower(body), SECURITY_MARKER)
    THEN [kind |-> "BlockedException", status |-> status, retry_after |-> None]
    ELSE IF Contains(Lower(body), CAPTCHA_MARKER)
    THEN [kind |-> "CaptchaException", status |-> status, retry_after |-> None]
    ELSE IF status # HTTP_OK
    THEN [kind |-> "LinkedInScraperError", status |-> status, retry_after |-> None]
    ELSE [kind |-> "Response", status |-> status, retry_after |-> None]


\* f"HTTP {response.status_code}", the message of the error raised for a status
\* other than 200
HttpErrorMessage(status) ==
    CASE status = 404 -> "HTTP 404"
      [] status = 429 -> "HTTP 429"
      [] status = 500 -> "HTTP 500"
      [] status = 999 -> "HTTP 999"
      [] OTHER -> "HTTP 200"

(***************************************************************************)
(* The clock                                                                *)
(***************************************************************************)
\* time.time() at process start: epoch seconds, far beyond one TTL
StartTime == SESSION_TTL + 1

\* the instants a clock read may return: just after the start, and one TTL
\* later, so that a session's age can be below, at and above the TTL
Times == {StartTime, StartTime + 1, StartTime + SESSION_TTL, StartTime + SESSION_TTL + 1}

\* the lean environment: the whole batch runs within one instant of the grid
LeanTimes == {StartTime}

\* time.time() never goes back
ClockReads(T, t) == {u \in T : u >= t}

(***************************************************************************)
(* The network                                                              *)
(***************************************************************************)
\* bodies sent by the service: one per combination of markers
WireBodies == { <<"Jane Doe">>, <<"Security Check">>, <<"CAPTCHA">>,
                <<"Security Check", "CAPTCHA">> }

\* the Retry-After header of a response: absent, or a number of seconds
Headers == { [retry_after |-> None], [retry_after |-> "12"] }

\* no response object
NoResponse == [status |-> 0, headers |-> [retry_after |-> None], body |-> <<>>]

\* requests.get either raises or returns a response
NetResults ==
    [type : {"raise"}, exc : {"ProxyError", "ConnectionError", "ReadTimeout"}]
    \cup [type : {"response"}, status : Statuses, headers : Headers, body : WireBodies]

\* "except (requests.exceptions.ProxyError, requests.exceptions.ConnectionError)"
IsTransportError(exc) == exc \in {"ProxyError", "ConnectionError"}

(***************************************************************************)
(* make_request: the retry loop                                             *)
(***************************************************************************)
\* "time.sleep(random.uniform(30, 60))": the draw may come out anywhere in the
\* interval; its two ends stand for a short and a long draw
BLOCK_DELAY_MIN == 30

BLOCK_DELAY_MAX == 60

BlockDelays == {BLOCK_DELAY_MIN, BLOCK_DELAY_MAX}

\* (mutant of IsLastAttempt: the attempts are counted from 1)
IsLastAttemptOneBased(a) == a = MAX_RETRIES

\* "if attempt == MAX_RETRIES - 1: raise" of the two raising handlers
IsLastAttempt(a) == a = MAX_RETRIES - 1

\* (mutant of MoreIterations: the loop runs one iteration too many)
OneMoreIteration(a) == a + 1 <= MAX_RETRIES

\* "for attempt in range(MAX_RETRIES)": is there another iteration after a
MoreIterations(a) == a + 1 < MAX_RETRIES

\* (mutant of NextAttempt: the loop variable is not advanced)
SameAttempt(a) == a

\* "for attempt in range(MAX_RETRIES)": the value of attempt in the next iteration
NextAttempt(a) == a + 1

\* an iteration ended in a handler that did not raise: the loop goes on, or is
\* exhausted and line 315 raises "Max retries exceeded"
Continue(what) ==
    /\ outcome' = what
    /\ IF MoreIterations(attempt)
       THEN /\ attempt' = NextAttempt(attempt)
            /\ pc' = "mr_proxy"
            /\ error' = error
            /\ error_cause' = error_cause
       ELSE /\ attempt' = attempt
            /\ pc' = "mr_raised"
            /\ error' = "Max retries exceeded"
            /\ error_cause' = "none"

\* "except Exception as e" (lines 310-313)
\* the handler sleeps nothing; the error it raises embeds str(e)
GenericHandler(what) ==
    /\ backoff' = 0
    /\ IF IsLastAttempt(attempt)
       THEN /\ outcome' = what
            /\ attempt' = attempt
            /\ pc' = "mr_raised"
            /\ error' = "Request failed after MAX_RETRIES attempts"
            /\ error_cause' = what
       ELSE Continue(what)

\* "except (RateLimitException, BlockedException, CaptchaException) as e"
\* (lines 304-308): sleep random.uniform(30, 60), re-raise e on the last attempt
BlockHandler(kind) ==
    /\ \E d \in BlockDelays : backoff' = d
    /\ IF IsLastAttempt(attempt)
       THEN /\ outcome' = kind
            /\ attempt' = attempt
            /\ pc' = "mr_raised"
            /\ error' = kind
            /\ error_cause' = kind
       ELSE Continue(kind)

\* line 269: proxy = proxy_manager.get_proxy()
GetProxy ==
    /\ pc = "mr_proxy"
    /\ IF Available(blacklisted) = {}
       THEN /\ GenericHandler("No available proxies")
            /\ current_proxy' = current_proxy
       ELSE /\ \E p \in Available(blacklisted) : current_proxy' = p
            /\ pc' = "mr_cookies"
            /\ outcome' = "proxy"
            /\ UNCHANGED <<attempt, error, backoff, error_cause>>
    /\ UNCHANGED <<sideVars, cfgVars, blacklisted, cookieVars, envVars, mainVars>>
    /\ UNCHANGED <<gets, logins, drivers, refreshes, solver_calls, jar_sent, refreshed, response,
                   retry_after>>

\* line 270: cookies = cookie_manager.get_cookies(), with the refresh_cookies
\* call it may make. Clock is the set of instants time.time() may return and
\* Logins the browser behaviours of the environment.
GetCookies(Clock, Logins) ==
    /\ pc = "mr_cookies"
    /\ \E t \in ClockReads(Clock, now) :
         IF NeedsRefresh(cookies, last_refresh, t)
         THEN \E run \in Logins : \E t2 \in ClockReads(Clock, t) :
                LET r == RefreshCookies(cookies, last_refresh, creds, run, t2) IN
                /\ cookies' = r.cookies
                /\ last_refresh' = r.last_refresh
                /\ now' = IF r.login = 1 /\ run.fail_at = 0 THEN t2 ELSE t
                /\ drivers_open' = drivers_open + r.started - r.quits
                /\ session_ok' = IF r.last_refresh # last_refresh THEN ~r.raised ELSE session_ok
                /\ logins' = logins + r.login
                /\ drivers' = drivers + r.started
                /\ refreshes' = refreshes + 1
                /\ refreshed' = TRUE
                /\ IF r.raised
                   THEN /\ GenericHandler("Cookie refresh failed")
                        /\ jar_sent' = jar_sent
                   ELSE /\ jar_sent' = r.cookies
                        /\ pc' = "mr_request"
                        /\ outcome' = "cookies"
                        /\ UNCHANGED <<attempt, error, backoff, error_cause>>
         ELSE /\ now' = t
              /\ jar_sent' = cookies
              /\ refreshed' = FALSE
              /\ pc' = "mr_request"
              /\ outcome' = "cookies"
              /\ UNCHANGED <<cookieVars, drivers_open, session_ok, logins, drivers, refreshes,
                             attempt, error, backoff, error_cause>>
    /\ UNCHANGED <<sideVars, cfgVars, proxyVars, mainVars, gets, solver_calls, response,
                   retry_after>>

\* lines 273-313: the pacing sleep, requests.get, the checks of the response
\* and the handler of whatever was raised
Request ==
    /\ pc = "mr_request"
    /\ gets' = gets + 1
    /\ \E n \in NetResults :
         IF n.type = "raise"
         THEN /\ response' = response
              /\ retry_after' = retry_after
              /\ IF IsTransportError(n.exc)
                 THEN /\ blacklisted' = MarkBad(blacklisted, current_proxy)
                      /\ backoff' = 0
                      /\ Continue(n.exc)
                 ELSE /\ blacklisted' = blacklisted
                      /\ GenericHandler(n.exc)
         ELSE LET c == Classify(n.status, n.headers, n.body) IN
              CASE c.kind = "RateLimitException" ->
                     /\ blacklisted' = MarkBad(blacklisted, current_proxy)
                     /\ retry_after' = c.retry_after
                     /\ BlockHandler(c.kind)
                     /\ response' = response
                [] c.kind \in {"BlockedException", "CaptchaException"} ->
                     /\ blacklisted' = blacklisted
                     /\ retry_after' = c.retry_after
                     /\ BlockHandler(c.kind)
                     /\ response' = response
                [] c.kind = "LinkedInScraperError" ->
                     /\ blacklisted' = blacklisted
                     /\ retry_after' = c.retry_after
                     /\ GenericHandler(HttpErrorMessage(c.status))
                     /\ response' = response
                [] OTHER ->
                     /\ blacklisted' = blacklisted
                     /\ outcome' = "Response"
                     /\ response' = [status |-> n.status, headers |-> n.headers, body |-> n.body]
                     /\ pc' = "mr_returned"
                     /\ UNCHANGED <<attempt, error, backoff, retry_after, error_cause>>
    /\ UNCHANGED <<sideVars, cfgVars, current_proxy, cookieVars, envVars, mainVars>>
    /\ UNCHANGED <<logins, drivers, refreshes, solver_calls, jar_sent, refreshed>>


(***************************************************************************)
(* fetch_profile_data / extract_profile_data                                *)
(***************************************************************************)
\* A text is a sequence of tokens: a word, a blank, and the separators the
\* extraction splits on.
TextTokens == {"Jane", " ", "-", "|"}

Texts == SeqsUpTo(TextTokens, MaxTextLen)

\* s[i..] starts with the tokens of sep
StartsAt(s, i, sep) ==
    /\ i + Len(sep) - 1 <= Len(s)
    /\ \A j \in 1..Len(sep) : s[i + j - 1] = sep[j]

\* s.split(sep)[0]: the part of s before the first occurrence of sep
SplitFirst(s, sep) ==
    LET hits == {i \in 1..Len(s) : StartsAt(s, i, sep)}
    IN IF hits = {} THEN s
       ELSE SubSeq(s, 1, (CHOOSE i \in hits : \A j \in hits : i <= j) - 1)

\* s.strip()
RECURSIVE Strip(_)
Strip(s) ==
    IF s = <<>> THEN s
    ELSE IF Head(s) = " " THEN Strip(Tail(s))
    ELSE IF Last(s) = " " THEN Strip(Front(s))
    ELSE s

\* the elements of a page the name is drawn from: the og:title meta element
\* and its content attribute, the title element and its .string (None when the
\* element has no single text child), the h1.text-heading-xlarge element and
\* its text
NoElement == [present |-> FALSE, has_string |-> FALSE, text |-> <<>>]

\* the h1 texts pages are tried with
HeadingTexts == {<<>>, <<" ">>, <<"Jane">>, <<" ", "Jane", " ">>, <<"Jane", "-", "Jane">>}

Pages ==
    [og : {NoElement} \cup [present : {TRUE}, has_string : {TRUE}, text : Texts],
     title : {NoElement} \cup [present : {TRUE}, has_string : {FALSE}, text : {<<>>}]
                         \cup [present : {TRUE}, has_string : {TRUE}, text : Texts],
     h1 : {NoElement} \cup [present : {TRUE}, has_string : {TRUE}, text : HeadingTexts]]

\* Strategy 1 (lines 460-462): content.split('|')[0].split('-')[0].strip()
MetaName(og) == Strip(SplitFirst(SplitFirst(og.text, <<"|">>), <<"-">>))

\* Strategy 3 (lines 474-476): string.split('|')[0].strip().split(' - ')[0].strip()
TitleName(title) == Strip(SplitFirst(Strip(SplitFirst(title.text, <<"|">>)), <<" ", "-", " ">>))

\* Strategy 4 (line 487): name_element.get_text().strip()
LayoutName(h1) == Strip(h1.text)

\* (mutant of ExtractProfileData: the layout markers are consulted first)
ExtractLayoutFirst(p) ==
    IF p.h1.present /\ LayoutName(p.h1) # <<>> THEN [raised |-> FALSE, name |-> LayoutName(p.h1)]
    ELSE IF p.og.present THEN [raised |-> FALSE, name |-> MetaName(p.og)]
    ELSE [raised |-> FALSE, name |-> <<>>]

\* extract_profile_data, for the name: the strategies in the order of the code.
\* raised stands for the AttributeError of "soup.title.string.split" on a title
\* element whose .string is None.
ExtractProfileData(p) ==
    LET n1 == IF p.og.present THEN MetaName(p.og) ELSE <<>>
    IN IF n1 = <<>> /\ p.title.present /\ ~p.title.has_string
       THEN [raised |-> TRUE, name |-> <<>>]
       ELSE LET n3 == IF n1 = <<>> /\ p.title.present THEN TitleName(p.title) ELSE n1
                n4 == IF n3 = <<>> /\ p.h1.present THEN LayoutName(p.h1) ELSE n3
            IN [raised |-> FALSE, name |-> n4]

\* no profile record
NoProfile == [returned |-> FALSE, name |-> <<>>]

\* the variables that belong to other operations than fetch_profile_data's parse
pageFrame == <<cfgVars, proxyVars, cookieVars, envVars, reqVars, mainVars, solverVars, urlVars>>

\* fetch_profile_data, lines 434-444, on the page of a returned response
FetchProfileParse ==
    /\ pc = "fp_parse"
    /\ LET d == ExtractProfileData(page) IN
         IF d.raised
         THEN /\ profile_data' = NoProfile
              /\ fetch_error' = "'NoneType' object has no attribute 'split'"
         ELSE IF d.name # <<>>
         THEN /\ profile_data' = [returned |-> TRUE, name |-> d.name]
              /\ fetch_error' = None
         ELSE /\ profile_data' = NoProfile
              /\ fetch_error' = "No parsable data found"
    /\ pc' = "fp_done"
    /\ UNCHANGED <<page, pageFrame>>

(***************************************************************************)
(* clean_url                                                                *)
(***************************************************************************)
\* "if key.lower() not in ['trk', 'ref', 'original_referer']"
TRACKING_PARAMS == {"trk", "ref", "original_referer"}

\* the pieces of a query string between the '&': key=val, or a piece without '='
QueryParams ==
    { [key |-> "a", has_eq |-> TRUE, val |-> "1"],
      [key |-> "a", has_eq |-> TRUE, val |-> "2"],
      [key |-> "b", has_eq |-> TRUE, val |-> "1"],
      [key |-> "trk", has_eq |-> TRUE, val |-> "x"],
      [key |-> "TRK", has_eq |-> TRUE, val |-> "x"],
      [key |-> "flag", has_eq |-> FALSE, val |-> ""] }

\* the URLs clean_url is tried on: with and without a scheme, with and without
\* a trailing slash (an empty last path segment)
RawUrls ==
    [scheme : {"", "http"},
     netloc : {"linkedin.com"},
     path : {<<"in", "jane-doe">>, <<"in", "jane-doe", "">>},
     query : SeqsUpTo(QueryParams, MaxParams)]

\* str.lower() on the keys of QueryParams
LowerKey(key) == IF key = "TRK" THEN "trk" ELSE key

\* "clean_params[key] = val" on an insertion-ordered dict, kept as a sequence
\* of key/value pairs: a known key keeps its place and takes the new value
DictSet(d, key, val) ==
    IF \E i \in DOMAIN d : d[i].key = key
    THEN [i \in DOMAIN d |-> IF d[i].key = key THEN [key |-> key, val |-> val] ELSE d[i]]
    ELSE Append(d, [key |-> key, val |-> val])

\* (mutant of CleanParams: the denylist is not consulted)
CleanParamsKeepAll(q) == [i \in DOMAIN q |-> [key |-> q[i].key, val |-> q[i].val]]

\* lines 361-366: the loop that fills clean_params
RECURSIVE CleanParams(_)
CleanParams(q) ==
    IF q = <<>> THEN <<>>
    ELSE LET d == CleanParams(Front(q))
             p == Last(q)
         IN IF p.has_eq /\ LowerKey(p.key) \notin TRACKING_PARAMS
            THEN DictSet(d, p.key, p.val)
            ELSE d

\* "'/'.join(part for part in parsed.path.split('/') if part)"
RECURSIVE NonEmptyParts(_)
NonEmptyParts(path) ==
    IF path = <<>> THEN <<>>
    ELSE IF Last(path) = "" THEN NonEmptyParts(Front(path))
    ELSE Append(NonEmptyParts(Front(path)), Last(path))

\* clean_url as a whole: the scheme it prepends, the path and the query it
\* rebuilds
CleanUrlOf(u) ==
    [scheme |-> IF u.scheme = "" THEN "https" ELSE u.scheme,
     netloc |-> u.netloc,
     path |-> NonEmptyParts(u.path),
     query |-> CleanParams(u.query)]

\* no URL
NoUrl == [scheme |-> "", netloc |-> "", path |-> <<>>, query |-> <<>>]

\* the variables that belong to other operations than clean_url
urlFrame == <<cfgVars, proxyVars, cookieVars, envVars, reqVars, mainVars, solverVars, pageVars>>

\* clean_url, lines 353-373
CleanUrl ==
    /\ pc = "cu_call"
    /\ cleaned_url' = CleanUrlOf(raw_url)
    /\ pc' = "cu_done"
    /\ UNCHANGED <<raw_url, urlFrame>>

\* the side operations at rest, as they are while main runs (main never calls
\* the solver, so the api key is never read there)
SideIdle ==
    /\ api_key = FALSE
    /\ submits = 0
    /\ polls = 0
    /\ solved = FALSE
    /\ token = None
    /\ page = [og |-> NoElement, title |-> NoElement, h1 |-> NoElement]
    /\ profile_data = NoProfile
    /\ fetch_error = None
    /\ raw_url = NoUrl
    /\ cleaned_url = NoUrl

(***************************************************************************)
(* main: the batch loop                                                     *)
(***************************************************************************)
URLS == <<"linkedin.com/in/a", "linkedin.com/in/b", "linkedin.com/in/c", "linkedin.com/in/d",
          "linkedin.com/in/e", "linkedin.com/in/f", "linkedin.com/in/g", "linkedin.com/in/h",
          "linkedin.com/in/i", "linkedin.com/in/j", "linkedin.com/in/k", "linkedin.com/in/l">>

\* the URL lists of length n a batch is run on: all distinct, or the last
\* repeating the first (the input is not deduplicated)
UrlLists(n) ==
    { SubSeq(URLS, 1, n),
      [i \in 1..n |-> IF i = n THEN URLS[1] ELSE URLS[i]] }

\* (mutant of BreakerTrips: the comparison is strict)
BreakerTripsLate(cf) == cf > MAX_CONSECUTIVE_FAILURES

\* "if consecutive_failures >= MAX_CONSECUTIVE_FAILURES: break"
BreakerTrips(cf) == cf >= MAX_CONSECUTIVE_FAILURES

\* "for url in pbar:" takes the next URL and calls fetch_profile_data, which
\* calls make_request
MainFetch ==
    /\ pc = "main_loop"
    /\ url_idx <= Len(valid_urls)
    /\ attempt' = 0
    /\ gets' = 0
    /\ logins' = 0
    /\ drivers' = 0
    /\ refreshes' = 0
    /\ solver_calls' = 0
    /\ outcome' = "none"
    /\ error' = "none"
    /\ jar_sent' = EmptyJar
    /\ refreshed' = FALSE
    /\ response' = NoResponse
    /\ backoff' = 0
    /\ retry_after' = None
    /\ error_cause' = "none"
    /\ pc' = IF MAX_RETRIES > 0 THEN "mr_proxy" ELSE "mr_raised"
    /\ UNCHANGED <<sideVars, cfgVars, proxyVars, cookieVars, envVars, mainVars>>

\* the for loop runs out of URLs
MainLoopEnd ==
    /\ pc = "main_loop"
    /\ url_idx > Len(valid_urls)
    /\ stopped' = "exhausted"
    /\ pc' = "save"
    /\ UNCHANGED <<sideVars, cfgVars, proxyVars, cookieVars, envVars, reqVars>>
    /\ UNCHANGED <<url_idx, bookmarks, failed_urls, processed_count, consecutive_failures,
                   results, saved>>

\* lines 761-778: the URL succeeded
Succeed ==
    /\ bookmarks' = Append(bookmarks, valid_urls[url_idx])
    /\ processed_count' = processed_count + 1
    /\ consecutive_failures' = 0
    /\ results' = Append(results, "ok")
    /\ url_idx' = url_idx + 1
    /\ pc' = "main_loop"
    /\ UNCHANGED <<failed_urls, stopped, saved>>

\* (mutant of AbortsOnFailure: the exception is never re-raised)
AbortsNever(skip) == FALSE

\* "if not args.skip_errors: raise"
AbortsOnFailure(skip) == ~skip

\* lines 780-791: the except branch of the loop body
Fail ==
    /\ failed_urls' = Append(failed_urls, valid_urls[url_idx])
    /\ consecutive_failures' = consecutive_failures + 1
    /\ results' = Append(results, "fail")
    /\ IF BreakerTrips(consecutive_failures + 1)
       THEN /\ stopped' = "breaker"
            /\ pc' = "save"
            /\ url_idx' = url_idx
       ELSE IF AbortsOnFailure(skip_errors)
       THEN /\ stopped' = "abort"
            /\ pc' = "exit_error"
            /\ url_idx' = url_idx
       ELSE /\ stopped' = stopped
            /\ pc' = "main_loop"
            /\ url_idx' = url_idx + 1
    /\ UNCHANGED <<bookmarks, processed_count, saved>>

\* make_request returned a response: fetch_profile_data parses it and main
\* books the URL as a success, or as a failure when no name was extracted
MainAfterResponse ==
    /\ pc = "mr_returned"
    /\ \E has_name \in BOOLEAN : IF has_name THEN Succeed ELSE Fail
    /\ UNCHANGED <<sideVars, cfgVars, proxyVars, cookieVars, envVars, reqVars>>

\* make_request raised: fetch_profile_data returns (None, str(e)) and main
\* raises LinkedInScraperError(error) into its except branch
MainAfterError ==
    /\ pc = "mr_raised"
    /\ Fail
    /\ UNCHANGED <<sideVars, cfgVars, proxyVars, cookieVars, envVars, reqVars>>

\* lines 794-795: save_results, which reports whether it could write the file
Save ==
    /\ pc = "save"
    /\ saved' = TRUE
    /\ \E ok \in BOOLEAN : pc' = IF ok THEN "exit_ok" ELSE "exit_error"
    /\ UNCHANGED <<sideVars, cfgVars, proxyVars, cookieVars, envVars, reqVars>>
    /\ UNCHANGED <<url_idx, bookmarks, failed_urls, processed_count, consecutive_failures,
                   results, stopped>>

(***************************************************************************)
(* Specifications                                                           *)
(***************************************************************************)
\* the state after the module-level constructors and main's set-up
InitWith(n) ==
    /\ valid_urls \in UrlLists(n)
    /\ skip_errors \in BOOLEAN
    /\ creds \in BOOLEAN
    /\ blacklisted = {}
    /\ current_proxy = None
    /\ cookies = EmptyJar
    /\ last_refresh = 0
    /\ now = StartTime
    /\ drivers_open = 0
    /\ session_ok = FALSE
    /\ attempt = 0
    /\ gets = 0
    /\ logins = 0
    /\ drivers = 0
    /\ refreshes = 0
    /\ solver_calls = 0
    /\ outcome = "none"
    /\ error = "none"
    /\ jar_sent = EmptyJar
    /\ refreshed = FALSE
    /\ response = NoResponse
    /\ backoff = 0
    /\ retry_after = None
    /\ error_cause = "none"
    /\ SideIdle
    /\ pc = "main_loop"
    /\ url_idx = 1
    /\ bookmarks = <<>>
    /\ failed_urls = <<>>
    /\ processed_count = 0
    /\ consecutive_failures = 0
    /\ results = <<>>
    /\ stopped = "none"
    /\ saved = FALSE

Init == InitWith(NumUrls)

GetCookiesFull == GetCookies(Times, LoginRuns)

Next ==
    \/ MainFetch
    \/ GetProxy
    \/ GetCookiesFull
    \/ Request
    \/ MainAfterResponse
    \/ MainAfterError
    \/ MainLoopEnd
    \/ Save

\* the whole program, short batches, every behaviour of clock and browser
Spec == Init /\ [][Next]_vars

\* the whole program with its steps taken whenever one can be: every blocking
\* call of the program has a timeout (requests.get, the WebDriverWait waits)
\* and every sleep returns
SpecFair == Init /\ [][Next]_vars /\ WF_vars(Next)

InitBatch == InitWith(BatchUrls)

GetCookiesLean == GetCookies(LeanTimes, LeanLoginRuns)

NextBatch ==
    \/ MainFetch
    \/ GetProxy
    \/ GetCookiesLean
    \/ Request
    \/ MainAfterResponse
    \/ MainAfterError
    \/ MainLoopEnd
    \/ Save

\* the whole program, long batches, a browser whose login succeeds at once
SpecBatch == InitBatch /\ [][NextBatch]_vars


\* lines 284-298 on their own: the classification of one received response
ClassifyResponse ==
    /\ pc = "classify"
    /\ outcome' = Classify(response.status, response.headers, response.body).kind
    /\ retry_after' = Classify(response.status, response.headers, response.body).retry_after
    /\ pc' = "classified"
    /\ UNCHANGED <<sideVars, cfgVars, proxyVars, cookieVars, envVars, mainVars>>
    /\ UNCHANGED <<attempt, gets, logins, drivers, refreshes, solver_calls, error, jar_sent,
                   refreshed, response, backoff, error_cause>>

Bodies == SeqsUpTo(Tokens, MaxBodyLen)

InitClassify ==
    /\ valid_urls = SubSeq(URLS, 1, 1)
    /\ skip_errors = FALSE
    /\ creds = FALSE
    /\ blacklisted = {}
    /\ current_proxy = None
    /\ cookies = EmptyJar
    /\ last_refresh = 0
    /\ now = StartTime
    /\ drivers_open = 0
    /\ session_ok = FALSE
    /\ attempt = 0
    /\ gets = 0
    /\ logins = 0
    /\ drivers = 0
    /\ refreshes = 0
    /\ solver_calls = 0
    /\ outcome = "none"
    /\ error = "none"
    /\ jar_sent = EmptyJar
    /\ refreshed = FALSE
    /\ response \in [status : Statuses, headers : Headers, body : Bodies]
    /\ backoff = 0
    /\ retry_after = None
    /\ error_cause = "none"
    /\ SideIdle
    /\ pc = "classify"
    /\ url_idx = 1
    /\ bookmarks = <<>>
    /\ failed_urls = <<>>
    /\ processed_count = 0
    /\ consecutive_failures = 0
    /\ results = <<>>
    /\ stopped = "none"
    /\ saved = FALSE

NextClassify == ClassifyResponse

\* the response checks of make_request applied to every response of the bounds
SpecClassify == InitClassify /\ [][NextClassify]_vars

\* main and make_request at rest, for the operations run on their own
ProgramIdle ==
    /\ valid_urls = SubSeq(URLS, 1, 1)
    /\ skip_errors = FALSE
    /\ creds = FALSE
    /\ blacklisted = {}
    /\ current_proxy = None
    /\ cookies = EmptyJar
    /\ last_refresh = 0
    /\ now = StartTime
    /\ drivers_open = 0
    /\ session_ok = FALSE
    /\ attempt = 0
    /\ gets = 0
    /\ logins = 0
    /\ drivers = 0
    /\ refreshes = 0
    /\ solver_calls = 0
    /\ outcome = "none"
    /\ error = "none"
    /\ jar_sent = EmptyJar
    /\ refreshed = FALSE
    /\ response = NoResponse
    /\ backoff = 0
    /\ retry_after = None
    /\ error_cause = "none"
    /\ url_idx = 1
    /\ bookmarks = <<>>
    /\ failed_urls = <<>>
    /\ processed_count = 0
    /\ consecutive_failures = 0
    /\ results = <<>>
    /\ stopped = "none"
    /\ saved = FALSE

InitSolver ==
    /\ ProgramIdle
    /\ api_key \in BOOLEAN
    /\ submits = 0
    /\ polls = 0
    /\ solved = FALSE
    /\ token = None
    /\ page = [og |-> NoElement, title |-> NoElement, h1 |-> NoElement]
    /\ profile_data = NoProfile
    /\ fetch_error = None
    /\ raw_url = NoUrl
    /\ cleaned_url = NoUrl
    /\ pc = "sv_start"

NextSolver ==
    \/ SolverSubmit
    \/ SolverPoll

\* one solve_recaptcha call against every behaviour of the solving service;
\* the post and the get have timeouts and the sleep returns, so a step that
\* can be taken is taken
SpecSolver == InitSolver /\ [][NextSolver]_vars /\ WF_vars(NextSolver)

InitExtract ==
    /\ ProgramIdle
    /\ api_key = FALSE
    /\ submits = 0
    /\ polls = 0
    /\ solved = FALSE
    /\ token = None
    /\ page \in Pages
    /\ profile_data = NoProfile
    /\ fetch_error = None
    /\ raw_url = NoUrl
    /\ cleaned_url = NoUrl
    /\ pc = "fp_parse"

NextExtract == FetchProfileParse

\* fetch_profile_data's parse of every page of the bounds
SpecExtract == InitExtract /\ [][NextExtract]_vars

InitCleanUrl ==
    /\ ProgramIdle
    /\ api_key = FALSE
    /\ submits = 0
    /\ polls = 0
    /\ solved = FALSE
    /\ token = None
    /\ page = [og |-> NoElement, title |-> NoElement, h1 |-> NoElement]
    /\ profile_data = NoProfile
    /\ fetch_error = None
    /\ raw_url \in RawUrls
    /\ cleaned_url = NoUrl
    /\ pc = "cu_call"

NextCleanUrl == CleanUrl

\* clean_url applied to every URL of the bounds
SpecCleanUrl == InitCleanUrl /\ [][NextCleanUrl]_vars

(***************************************************************************)
(* Claims                                                                   *)
(***************************************************************************)

\* C1: get_proxy never returns an endpoint that is blacklisted at the time of
\* the call (the state in which get_proxy has just returned holds an endpoint
\* of the static list outside the blacklist), and a get_proxy call made when
\* every endpoint is blacklisted fails with "No available proxies" and hands
\* out no endpoint.
C1_NeverBlacklisted ==
    /\ [](pc = "mr_cookies" => current_proxy \in Proxies \ blacklisted)
    /\ [][(pc = "mr_proxy" /\ Proxies \subseteq blacklisted)
            => (outcome' = "No available proxies" /\ pc' # "mr_cookies"
                /\ current_proxy' = current_proxy)]_vars

\* a get_proxy call has failed with every endpoint blacklisted (the second
\* endpoint was handed out while the first was already blacklisted)
C1_Witness ==
    /\ outcome = "No available proxies"
    /\ blacklisted = Proxies

\* C2: one make_request call issues at most MAX_RETRIES HTTP GET requests.
C2_AtMostMaxRetriesGets == gets <= MAX_RETRIES

\* a call that used all its attempts on GET requests and failed
C2_Witness == gets = MAX_RETRIES /\ pc = "mr_raised" /\ error = "Max retries exceeded"

RECURSIVE TrailingFails(_)
TrailingFails(r) ==
    IF r = <<>> \/ Last(r) # "fail" THEN 0 ELSE 1 + TrailingFails(Front(r))

\* C3: the counter is the number of failures since the last success (a
\* success resets it to 0); the breaker has stopped the batch exactly when
\* that number is MAX_CONSECUTIVE_FAILURES, never below and never above; and
\* once it has, the loop is over with the failed URL as the last one attempted.
C3_BreakerExactlyAtNth ==
    /\ consecutive_failures = TrailingFails(results)
    /\ consecutive_failures <= MAX_CONSECUTIVE_FAILURES
    /\ (stopped = "breaker") <=> (consecutive_failures = MAX_CONSECUTIVE_FAILURES)
    /\ stopped = "breaker" =>
         /\ pc \in {"save", "exit_ok", "exit_error"}
         /\ Len(results) = url_idx

\* a failure, a success, then five failures in a row stop the batch with
\* URLs left over
C3_Witness ==
    /\ stopped = "breaker"
    /\ url_idx < Len(valid_urls)
    /\ results = <<"fail", "ok", "fail", "fail", "fail", "fail", "fail">>

\* the outcome the decision order of the specification assigns to a response
ClaimedOutcome(status, body) ==
    IF status \in {429, 999} THEN "RateLimited"
    ELSE IF Contains(Lower(body), SECURITY_MARKER) THEN "Blocked"
    ELSE IF Contains(Lower(body), CAPTCHA_MARKER) THEN "CaptchaRequired"
    ELSE IF status # 200 THEN "HttpError"
    ELSE "Success"

\* the outcome a raised exception class (or a returned response) stands for
OutcomeOf(kind) ==
    CASE kind = "RateLimitException" -> "RateLimited"
      [] kind = "BlockedException" -> "Blocked"
      [] kind = "CaptchaException" -> "CaptchaRequired"
      [] kind = "LinkedInScraperError" -> "HttpError"
      [] kind = "Response" -> "Success"
      [] OTHER -> "none"

\* C4: every received response is classified by the first-match order
\* 429/999 -> RateLimited, security check -> Blocked, captcha ->
\* CaptchaRequired, status other than 200 -> HttpError, else Success.
C4_DecisionOrder ==
    pc = "classified" => OutcomeOf(outcome) = ClaimedOutcome(response.status, response.body)

\* C5: a get_cookies call made within the TTL of the last successful refresh
\* runs no refresh and returns the stored jar, and an expired session makes
\* the call run exactly one refresh.
C5_OneRefreshPerExpiry ==
    [][(pc = "mr_cookies" /\ session_ok) =>
         /\ (now' - last_refresh < SESSION_TTL) =>
               (refreshes' = refreshes /\ cookies' = cookies /\ jar_sent' = cookies)
         /\ (now' - last_refresh > SESSION_TTL) => refreshes' = refreshes + 1]_vars

\* C6: get_cookies returns the stored jar only while now - created < TTL; in
\* every other case the jar it returns is the one a refresh of this very call
\* stored, stamped with the time of that refresh. (Stated for a store that
\* is empty or was filled by a refresh that returned.)
C6_NoStaleJar ==
    [][(pc = "mr_cookies" /\ pc' = "mr_request" /\ (session_ok \/ last_refresh = 0)) =>
         IF refreshed'
         THEN jar_sent' = cookies' /\ last_refresh' = now'
         ELSE jar_sent' = cookies /\ DOMAIN cookies # {}
              /\ now' - last_refresh < SESSION_TTL]_vars

\* C7: no browser driver session is left open by refresh_cookies, whether it
\* returned or raised.
C7_DriverAlwaysQuit == drivers_open = 0

\* a refresh that started a driver and then failed
C7_Witness ==
    /\ outcome = "Cookie refresh failed"
    /\ drivers > 0
    /\ drivers_open = 0

\* C8: an attempt that ends in HTTP 404 fails the fetch on that attempt.
C8_PermanentErrorFailsFast ==
    [][(pc = "mr_request" /\ outcome' = "HTTP 404") => pc' = "mr_raised"]_vars

\* C9: an attempt classified CaptchaRequired has the CAPTCHA resolver called
\* before the fetch goes on.
C9_CaptchaCallsSolver ==
    [][(pc = "mr_request" /\ outcome' = "CaptchaException")
            => solver_calls' = solver_calls + 1]_vars

\* C10: a failed session refresh ends the fetch: make_request raises on that
\* attempt instead of going on to another attempt (and another login).
C10_RefreshFailurePropagates ==
    [][(pc = "mr_cookies" /\ outcome' = "Cookie refresh failed" /\ logins' = logins + 1)
            => pc' = "mr_raised"]_vars

\* C11: within one fetch, the delay slept before a retry is never shorter than
\* the delay slept before the previous retry. (Stated for two retries in a row
\* that both follow a blocking signal, the case in which both delays are
\* computed.)
C11_BackoffMonotone ==
    [][(pc = "mr_request" /\ pc' = "mr_proxy" /\ backoff > 0 /\ backoff' > 0)
            => backoff' >= backoff]_vars

\* C12: the rate-limit failure raised for a response that has a Retry-After
\* header carries the value of that header. (Stated for the responses the
\* code does classify as rate-limited.)
C12_RetryAfterFromHeader ==
    (pc = "classified" /\ response.status \in {429, 999} /\ outcome = "RateLimitException"
        /\ response.headers.retry_after # None)
    => retry_after = response.headers.retry_after

\* C13 as amended: solve_recaptcha makes at most one submission and at most
\* MAX_POLLS polls and always returns; with an API key it has made exactly one
\* submission when it returns, without one it returns failure with no
\* submission and no poll; a failed submission ends the solve with no poll;
\* a poll answering 'not ready' goes on to the next poll until MAX_POLLS of
\* them have been made, a poll answering success ends the solve with its
\* token, any other poll ends it with failure; a token is returned only if a
\* poll answered success.
C13_SolverBounded ==
    /\ [](submits <= 1 /\ polls <= MAX_POLLS)
    /\ [](pc = "sv_done" =>
            /\ submits = (IF api_key THEN 1 ELSE 0)
            /\ (~api_key => polls = 0 /\ token = None)
            /\ (token # None => solved))
    /\ [][(pc = "sv_start" /\ submits' = 1 /\ outcome' # "CAPTCHA submitted") =>
            (pc' = "sv_done" /\ polls' = 0 /\ token' = None)]_vars
    /\ [][(pc = "sv_poll" /\ pc' # pc) => (pc' = "sv_done" /\ submits' = submits)]_vars
    /\ [][pc = "sv_poll" =>
            \/ UNCHANGED vars
            \/ /\ polls' = polls + 1
               /\ CASE outcome' = "CAPCHA_NOT_READY" ->
                         IF polls' < 30 THEN pc' = "sv_poll" ELSE pc' = "sv_done" /\ token' = None
                    [] outcome' = "solved" -> pc' = "sv_done" /\ token' # None
                    [] OTHER -> pc' = "sv_done" /\ token' = None]_vars
    /\ <>(pc = "sv_done")

\* 30 polls answered 'not ready': the solve has failed
C13_Witness ==
    /\ pc = "sv_done"
    /\ api_key
    /\ submits = 1
    /\ polls = 30
    /\ outcome = "CAPCHA_NOT_READY"
    /\ token = None

\* C13 as stated: every solve ends after exactly one submission and at most
\* 30 polls.
C13_ExactlyOneSubmission == pc = "sv_done" => (submits = 1 /\ polls <= 30)

\* C14: a failed URL is recorded; without skip-errors the batch aborts on its
\* first failure; with skip-errors it goes on to the next URL; and in both
\* modes the failure that makes MAX_CONSECUTIVE_FAILURES in a row stops the
\* batch, skip-errors or not.
C14_BatchModes ==
    /\ [][Len(failed_urls') = Len(failed_urls) + 1 =>
            /\ failed_urls' = Append(failed_urls, valid_urls[url_idx])
            /\ IF consecutive_failures + 1 >= MAX_CONSECUTIVE_FAILURES
               THEN stopped' = "breaker" /\ pc' = "save"
               ELSE IF skip_errors
               THEN stopped' = "none" /\ pc' = "main_loop" /\ url_idx' = url_idx + 1
               ELSE stopped' = "abort" /\ pc' = "exit_error" /\ saved' = FALSE]_vars
    /\ []((~skip_errors /\ failed_urls # <<>>) => (stopped = "abort" /\ Len(failed_urls) = 1))
    /\ []((skip_errors /\ stopped # "breaker") => consecutive_failures < MAX_CONSECUTIVE_FAILURES)

\* a skip-errors batch stopped by its fifth failure in a row, URLs left over
C14_Witness ==
    /\ skip_errors
    /\ stopped = "breaker"
    /\ Len(failed_urls) = MAX_CONSECUTIVE_FAILURES
    /\ processed_count = 0
    /\ url_idx < Len(valid_urls)

\* C15: a page with an og:title that yields a name and with the layout marker
\* gets the name of the og:title; a page with the layout marker only gets
\* the (non-empty) name of the marker; a page with none of og:title, title
\* element and layout marker yields no record and "No parsable data found".
C15_ExtractionPrecedence ==
    pc = "fp_done" =>
        /\ (page.og.present /\ MetaName(page.og) # <<>> /\ page.h1.present) =>
              /\ profile_data = [returned |-> TRUE, name |-> MetaName(page.og)]
              /\ fetch_error = None
        /\ (~page.og.present /\ ~page.title.present /\ page.h1.present
                /\ LayoutName(page.h1) # <<>>) =>
              /\ profile_data = [returned |-> TRUE, name |-> LayoutName(page.h1)]
              /\ fetch_error = None
        /\ (~page.og.present /\ ~page.title.present /\ ~page.h1.present) =>
              /\ profile_data = NoProfile
              /\ fetch_error = "No parsable data found"

\* a page whose og:title and layout marker yield different names has been
\* parsed
C15_Witness ==
    /\ pc = "fp_done"
    /\ page.og.present
    /\ page.h1.present
    /\ MetaName(page.og) # <<>>
    /\ LayoutName(page.h1) # <<>>
    /\ MetaName(page.og) # LayoutName(page.h1)
    /\ profile_data.returned

\* is a piece of a query string a tracking parameter
IsTracking(p) == LowerKey(p.key) \in {"trk", "ref", "original_referer"}

\* the query the claim describes: the pieces that are no tracking parameters,
\* each with its own value, in their original order
RECURSIVE ClaimedQuery(_)
ClaimedQuery(q) ==
    IF q = <<>> THEN <<>>
    ELSE IF IsTracking(Last(q)) THEN ClaimedQuery(Front(q))
    ELSE Append(ClaimedQuery(Front(q)), [key |-> Last(q).key, val |-> Last(q).val])

\* C16: clean_url drops the tracking parameters and keeps every other
\* parameter with its own value in the original order; a URL without scheme
\* gets https. (Stated for query strings whose pieces all have the form
\* key=value.)
C16_CleanUrlKeepsOthers ==
    (pc = "cu_done" /\ \A i \in DOMAIN raw_url.query : raw_url.query[i].has_eq) =>
        /\ cleaned_url.query = ClaimedQuery(raw_url.query)
        /\ cleaned_url.scheme = (IF raw_url.scheme = "" THEN "https" ELSE raw_url.scheme)
        /\ cleaned_url.path = <<"in", "jane-doe">>

\* C17: marking an endpoint that is blacklisted already changes nothing, and
\* no step of the program takes an endpoint out of the blacklist.
C17_BlacklistOnlyGrows ==
    /\ [](\A p \in blacklisted : MarkBad(blacklisted, p) = blacklisted)
    /\ [][blacklisted \subseteq blacklisted']_vars

\* the second fetch of a batch starts with both endpoints still blacklisted
C17_Witness ==
    /\ url_idx = 2
    /\ pc = "mr_proxy"
    /\ attempt = 0
    /\ blacklisted = Proxies

\* C18: an attempt that ends in a proxy or connection error through p leaves
\* p blacklisted; the fetch goes on to another attempt if one remains, and
\* else fails with an error that carries that last error.
C18_TransportErrorRetried ==
    [][(pc = "mr_request" /\ outcome' \in {"ProxyError", "ConnectionError"}) =>
         /\ current_proxy \in blacklisted'
         /\ IF attempt + 1 < MAX_RETRIES
            THEN pc' = "mr_proxy" /\ attempt' = attempt + 1
            ELSE pc' = "mr_raised" /\ error_cause' = outcome']_vars

\* the exception classes of the three blocking outcomes
BlockKinds == {"RateLimitException", "BlockedException", "CaptchaException"}

\* C19: an attempt that ends in a blocking outcome fails the fetch only if it
\* is the last allowed attempt, and then the fetch fails with the exception
\* of that very outcome.
C19_BlockedTypedFailureAtCap ==
    /\ [][(pc = "mr_request" /\ outcome' \in BlockKinds) =>
            IF attempt + 1 = MAX_RETRIES
            THEN pc' = "mr_raised" /\ error' = outcome' /\ error_cause' = outcome'
            ELSE pc' = "mr_proxy" /\ attempt' = attempt + 1 /\ error' = "none"]_vars
    /\ []((pc = "mr_raised" /\ error \in BlockKinds) =>
            (attempt + 1 = MAX_RETRIES /\ outcome = error))

\* a fetch whose three requests were all answered, the last with a CAPTCHA page
C19_Witness ==
    /\ pc = "mr_raised"
    /\ error = "CaptchaException"
    /\ gets = MAX_RETRIES

\* C20: an attempt that ends in a rate-limit status or a security-check page
\* leaves the proxy it went through blacklisted.
C20_BlockingSignalBlacklists ==
    [][(pc = "mr_request" /\ outcome' \in {"RateLimitException", "BlockedException"})
            => current_proxy \in blacklisted']_vars

\* a make_request call is under way
InCall == pc \in {"mr_proxy", "mr_cookies", "mr_request"}

\* make_request has returned a response, or raised
CallEnded == pc \in {"mr_returned", "mr_raised"}

\* the steps a call under way can still take at most: the iterations left,
\* three steps each
StepsLeft ==
    IF InCall
    THEN 3 * (MAX_RETRIES - attempt)
         - (CASE pc = "mr_proxy" -> 0 [] pc = "mr_cookies" -> 1 [] OTHER -> 2)
    ELSE 0

\* C21: every make_request call ends, by returning a response or by raising
\* an error: each step of a call leaves fewer steps to take and stays in the
\* call or ends it, a call that has ended has a response or an error, and a
\* call under way does end.
C21_FetchTerminates ==
    /\ [][(InCall /\ vars' # vars) =>
            (StepsLeft' < StepsLeft /\ (InCall' \/ CallEnded'))]_vars
    /\ [](pc = "mr_returned" => (response # NoResponse /\ error = "none"))
    /\ [](pc = "mr_raised" => error # "none")
    /\ (InCall ~> CallEnded)

\* a call has raised after using all its iterations without a single request
C21_Witness ==
    /\ pc = "mr_raised"
    /\ attempt = MAX_RETRIES - 1
    /\ gets = 0
    /\ error = "Request failed after MAX_RETRIES attempts"

\* the body tokens that hold the 'security check' or the 'captcha' marker in
\* some spelling
MarkerTokens == {"Security Check", "security check", "CAPTCHA"}

\* C22: a response make_request returns has status 200 and a body without
\* the 'security check' and the 'captcha' marker, in any spelling.
C22_ReturnedResponseIsClean ==
    pc = "mr_returned" =>
        /\ response.status = 200
        /\ \A i \in DOMAIN response.body : response.body[i] \notin MarkerTokens

\* a response returned on the last attempt, after two attempts that failed
C22_Witness ==
    /\ pc = "mr_returned"
    /\ gets = MAX_RETRIES
    /\ response.status = 200
    /\ response.body = <<"Jane Doe">>

\* C23: a refresh_cookies call that fails leaves the cookie jar and the
\* last-refresh timestamp as they were, and starts no browser driver when
\* the credentials are missing.
C23_FailedRefreshKeepsStore ==
    [][(pc = "mr_cookies" /\ outcome' = "Cookie refresh failed") =>
         /\ cookies' = cookies
         /\ last_refresh' = last_refresh
         /\ (~creds => (drivers' = drivers /\ logins' = logins))]_vars

\* C24: once every endpoint is blacklisted, no step issues a request, runs a
\* login or adds a bookmark, and every make_request call made from then on
\* raises with "No available proxies" as its cause.
C24_ExhaustedPoolFailsAll ==
    /\ [][Proxies \subseteq blacklisted =>
            /\ gets' <= gets
            /\ logins' <= logins
            /\ refreshes' <= refreshes
            /\ bookmarks' = bookmarks
            /\ processed_count' = processed_count
            /\ pc' # "mr_returned"
            /\ blacklisted' = blacklisted]_vars
    /\ []((Proxies \subseteq blacklisted /\ pc = "mr_raised" /\ gets = 0) =>
            (error_cause = "No available proxies" /\ logins = 0))
    /\ []((Proxies \subseteq blacklisted /\ InCall) => pc = "mr_proxy")

\* the third URL of a batch has failed without a request after the first
\* used up both endpoints and the second failed the same way
C24_Witness ==
    /\ url_idx = 3
    /\ pc = "mr_raised"
    /\ gets = 0
    /\ logins = 0
    /\ blacklisted = Proxies
    /\ error_cause = "No available proxies"
    /\ failed_urls = SubSeq(valid_urls, 1, 2)

\* C25: a batch loop that ran out of URLs or was stopped by the breaker has
\* save_results called before the program exits, and a program that exits
\* without it aborted on a failure without skip-errors; the success count is
\* the number of bookmarks; no URL is both a bookmark and in the failed list.
C25_BookmarksSavedAndDisjoint ==
    /\ (pc \in {"exit_ok", "exit_error"} /\ stopped \in {"exhausted", "breaker"}) => saved
    /\ (pc \in {"exit_ok", "exit_error"} /\ ~saved) => (stopped = "abort" /\ ~skip_errors)
    /\ processed_count = Len(bookmarks)
    /\ Range(bookmarks) \cap Range(failed_urls) = {}

=============================================================================
